---------------------------- MODULE Spec2Model ----------------------------
(***************************************************************************)
(* Model of src/src/utils/transaction.ts: retryTransaction (the retrying   *)
(* submit/confirm loop), isRetryableError and formatTransactionError.      *)
(*                                                                         *)
(* A JavaScript string is a sequence of one-character strings, so that     *)
(* String.prototype.includes and toLowerCase are computed on the text     *)
(* itself.  Time is in milliseconds.                                       *)
(***************************************************************************)
EXTENDS Integers, Sequences, FiniteSets, TLC

\* ------------------------------------------------------------------------
\* JavaScript string primitives
\* ------------------------------------------------------------------------

\* Upper-case letters and their lower-case forms (String.prototype.toLowerCase).
LowerOf ==
    [A |-> "a", B |-> "b", C |-> "c", D |-> "d", E |-> "e", F |-> "f", G |-> "g",
     H |-> "h", I |-> "i", J |-> "j", K |-> "k", L |-> "l", M |-> "m", N |-> "n",
     O |-> "o", P |-> "p", Q |-> "q", R |-> "r", S |-> "s", T |-> "t", U |-> "u",
     V |-> "v", W |-> "w", X |-> "x", Y |-> "y", Z |-> "z"]

toLowerCase(s) ==
    [i \in 1..Len(s) |-> IF s[i] \in DOMAIN LowerOf THEN LowerOf[s[i]] ELSE s[i]]

\* s.includes(sub): sub occurs in s as a contiguous run of characters.
includes(s, sub) ==
    \E i \in 0..(Len(s) - Len(sub)) : \A j \in 1..Len(sub) : s[i + j] = sub[j]

\* First index (1-based) at which sub occurs in s, 0 when it does not.
indexOf(s, sub) ==
    IF includes(s, sub)
    THEN CHOOSE i \in 1..(Len(s) - Len(sub) + 1) :
            /\ \A j \in 1..Len(sub) : s[i + j - 1] = sub[j]
            /\ \A k \in 1..(i - 1) : \E j \in 1..Len(sub) : s[k + j - 1] # sub[j]
    ELSE 0

\* ------------------------------------------------------------------------
\* Program constants
\* ------------------------------------------------------------------------

DefaultMaxRetries == 3
DefaultRetryDelay == 1000
RefreshDelayMs == 300
ConfirmTimeoutMs == 60000
SettleDelayMs == 1000
JitterRangeMs == 500

InitialErrorMessage == <<"T","r","a","n","s","a","c","t","i","o","n"," ","f","a","i","l","e","d">>
ConfirmationTimeoutMessage == <<"T","r","a","n","s","a","c","t","i","o","n"," ","c","o","n","f","i","r","m","a","t","i","o","n"," ","t","i","m","e","o","u","t">>
UserCancelledMessage == <<"T","r","a","n","s","a","c","t","i","o","n"," ","w","a","s"," ","c","a","n","c","e","l","l","e","d"," ","b","y"," ","u","s","e","r",".">>
OnChainFailurePrefix == <<"T","r","a","n","s","a","c","t","i","o","n"," ","f","a","i","l","e","d",":"," ">>

\* ------------------------------------------------------------------------
\* isRetryableError
\* ------------------------------------------------------------------------

\* Variant: the list without its 'timeout' entry.
retryableErrors_noTimeout ==
    << <<"b","l","o","c","k","h","a","s","h"," ","n","o","t"," ","f","o","u","n","d">>,
       <<"b","l","o","c","k","h","a","s","h","n","o","t","f","o","u","n","d">>,
       <<"s","i","m","u","l","a","t","i","o","n"," ","f","a","i","l","e","d">>,
       <<"t","r","a","n","s","a","c","t","i","o","n"," ","s","i","m","u","l","a","t","i","o","n"," ","f","a","i","l","e","d">>,
       <<"a","c","c","o","u","n","t","d","i","d","n","o","t","s","e","r","i","a","l","i","z","e">>,
       <<"n","e","t","w","o","r","k"," ","e","r","r","o","r">>,
       <<"n","e","t","w","o","r","k"," ","r","e","q","u","e","s","t"," ","f","a","i","l","e","d">>,
       <<"r","a","t","e"," ","l","i","m","i","t">>,
       <<"4","2","9">>,
       <<"t","o","o"," ","m","a","n","y"," ","r","e","q","u","e","s","t","s">>,
       <<"c","o","n","n","e","c","t","i","o","n"," ","r","e","f","u","s","e","d">>,
       <<"f","e","t","c","h"," ","f","a","i","l","e","d">>,
       <<"r","p","c"," ","r","e","s","p","o","n","s","e"," ","e","r","r","o","r">>,
       <<"f","a","i","l","e","d"," ","t","o"," ","g","e","t"," ","r","e","c","e","n","t"," ","b","l","o","c","k","h","a","s","h">> >>

retryableErrors ==
    << <<"b","l","o","c","k","h","a","s","h"," ","n","o","t"," ","f","o","u","n","d">>,
       <<"b","l","o","c","k","h","a","s","h","n","o","t","f","o","u","n","d">>,
       <<"s","i","m","u","l","a","t","i","o","n"," ","f","a","i","l","e","d">>,
       <<"t","r","a","n","s","a","c","t","i","o","n"," ","s","i","m","u","l","a","t","i","o","n"," ","f","a","i","l","e","d">>,
       <<"a","c","c","o","u","n","t","d","i","d","n","o","t","s","e","r","i","a","l","i","z","e">>,
       <<"n","e","t","w","o","r","k"," ","e","r","r","o","r">>,
       <<"n","e","t","w","o","r","k"," ","r","e","q","u","e","s","t"," ","f","a","i","l","e","d">>,
       <<"t","i","m","e","o","u","t">>,
       <<"r","a","t","e"," ","l","i","m","i","t">>,
       <<"4","2","9">>,
       <<"t","o","o"," ","m","a","n","y"," ","r","e","q","u","e","s","t","s">>,
       <<"c","o","n","n","e","c","t","i","o","n"," ","r","e","f","u","s","e","d">>,
       <<"f","e","t","c","h"," ","f","a","i","l","e","d">>,
       <<"r","p","c"," ","r","e","s","p","o","n","s","e"," ","e","r","r","o","r">>,
       <<"f","a","i","l","e","d"," ","t","o"," ","g","e","t"," ","r","e","c","e","n","t"," ","b","l","o","c","k","h","a","s","h">> >>

isRetryableError(message) ==
    LET lower == toLowerCase(message)
    IN  \E k \in 1..Len(retryableErrors) : includes(lower, retryableErrors[k])

\* ------------------------------------------------------------------------
\* The catch block's classification (retryTransaction, lines 75-107)
\* ------------------------------------------------------------------------

\* Variant: the marker names without the numeric codes.
isProgramLogicError_namesOnly(message) ==
    \/ includes(message, <<"R","o","o","m","N","o","t","A","v","a","i","l","a","b","l","e">>)
    \/ includes(message, <<"G","a","m","e","A","l","r","e","a","d","y","S","t","a","r","t","e","d">>)
    \/ includes(message, <<"I","n","v","a","l","i","d","G","a","m","e","S","t","a","t","e">>)
    \/ includes(message, <<"S","e","l","e","c","t","i","o","n","T","i","m","e","E","x","p","i","r","e","d">>)

isProgramLogicError(message) ==
    \/ includes(message, <<"R","o","o","m","N","o","t","A","v","a","i","l","a","b","l","e">>)
    \/ includes(message, <<"G","a","m","e","A","l","r","e","a","d","y","S","t","a","r","t","e","d">>)
    \/ includes(message, <<"I","n","v","a","l","i","d","G","a","m","e","S","t","a","t","e">>)
    \/ includes(message, <<"S","e","l","e","c","t","i","o","n","T","i","m","e","E","x","p","i","r","e","d">>)
    \/ includes(message, <<"E","r","r","o","r"," ","N","u","m","b","e","r",":"," ","6","0","0","1">>)
    \/ includes(message, <<"E","r","r","o","r"," ","N","u","m","b","e","r",":"," ","6","0","0","2">>)
    \/ includes(message, <<"E","r","r","o","r"," ","N","u","m","b","e","r",":"," ","6","0","0","3">>)
    \/ includes(message, <<"E","r","r","o","r"," ","N","u","m","b","e","r",":"," ","6","0","0","4">>)
    \/ includes(message, <<"E","r","r","o","r"," ","N","u","m","b","e","r",":"," ","6","0","0","5">>)

isUserRejected(message) == includes(message, <<"U","s","e","r"," ","r","e","j","e","c","t","e","d">>)

hasFatalOtherMarker(message) ==
    \/ includes(message, <<"i","n","s","u","f","f","i","c","i","e","n","t"," ","f","u","n","d","s">>)
    \/ includes(message, <<"i","n","s","u","f","f","i","c","i","e","n","t"," ","l","a","m","p","o","r","t","s">>)
    \/ includes(message, <<"I","n","v","a","l","i","d"," ","p","r","o","g","r","a","m">>)
    \/ includes(message, <<"C","o","n","s","t","r","a","i","n","t","M","u","t">>)
    \/ includes(message, <<"n","o"," ","s","e","c","o","n","d"," ","p","l","a","y","e","r">>)

\* Variant: unknown errors are retried (the last disjunct is missing).
isNonRetryable_retryUnknown(message) ==
    \/ isUserRejected(message)
    \/ hasFatalOtherMarker(message)
    \/ isProgramLogicError(message)

\* Variant: a retryable marker is looked for before the fatal-other markers.
isNonRetryable_retryableFirst(message) ==
    \/ isUserRejected(message)
    \/ isProgramLogicError(message)
    \/ (~isRetryableError(message) /\ ~includes(message, <<"A","c","c","o","u","n","t","D","i","d","N","o","t","S","e","r","i","a","l","i","z","e">>))

isNonRetryable(message) ==
    \/ isUserRejected(message)
    \/ includes(message, <<"i","n","s","u","f","f","i","c","i","e","n","t"," ","f","u","n","d","s">>)
    \/ includes(message, <<"i","n","s","u","f","f","i","c","i","e","n","t"," ","l","a","m","p","o","r","t","s">>)
    \/ includes(message, <<"I","n","v","a","l","i","d"," ","p","r","o","g","r","a","m">>)
    \/ includes(message, <<"C","o","n","s","t","r","a","i","n","t","M","u","t">>)
    \/ includes(message, <<"n","o"," ","s","e","c","o","n","d"," ","p","l","a","y","e","r">>)
    \/ isProgramLogicError(message)
    \/ (~isRetryableError(message) /\ ~includes(message, <<"A","c","c","o","u","n","t","D","i","d","N","o","t","S","e","r","i","a","l","i","z","e">>))


\* ------------------------------------------------------------------------
\* JSON.stringify of an on-chain error payload
\* ------------------------------------------------------------------------

Digits == <<"0", "1", "2", "3", "4", "5", "6", "7", "8", "9">>

\* Decimal text of a natural number (Number.prototype.toString).
RECURSIVE numberToString(_)
numberToString(n) ==
    IF n < 10 THEN <<Digits[n + 1]>>
    ELSE numberToString(n \div 10) \o <<Digits[(n % 10) + 1]>>

\* JSON.stringify({InstructionError: [index, {Custom: code}]})
stringifyErr(err) ==
    <<"{","\"","I","n","s","t","r","u","c","t","i","o","n","E","r","r","o","r","\"",":","[">> \o numberToString(err.index)
        \o <<",","{","\"","C","u","s","t","o","m","\"",":">> \o numberToString(err.custom) \o <<"}","]","}">>

\* Variant: an err payload is reported as the confirmation timeout.
onChainFailureMessage_timeout(err) == ConfirmationTimeoutMessage

onChainFailureMessage(err) == OnChainFailurePrefix \o stringifyErr(err)

\* ------------------------------------------------------------------------
\* formatTransactionError
\* ------------------------------------------------------------------------

isDigit(c) == c \in {"0", "1", "2", "3", "4", "5", "6", "7", "8", "9"}

\* \w of a regular expression
isWordChar(c) ==
    \/ isDigit(c)
    \/ c = "_"
    \/ c \in DOMAIN LowerOf
    \/ c \in {LowerOf[u] : u \in DOMAIN LowerOf}

\* sub occurs in s at position i (1-based).
startsWithAt(s, i, sub) ==
    /\ i >= 1
    /\ i + Len(sub) - 1 <= Len(s)
    /\ \A j \in 1..Len(sub) : s[i + j - 1] = sub[j]

\* Length of the longest run of digits of s that starts at position i (\d+ is greedy).
RECURSIVE digitRun(_, _)
digitRun(s, i) ==
    IF i <= Len(s) /\ isDigit(s[i]) THEN 1 + digitRun(s, i + 1) ELSE 0

\* Length of the longest run of word characters of s that starts at position i.
RECURSIVE wordRun(_, _)
wordRun(s, i) ==
    IF i <= Len(s) /\ isWordChar(s[i]) THEN 1 + wordRun(s, i + 1) ELSE 0

\* parseInt(text, 10) of a run of digits
RECURSIVE parseInt(_)
parseInt(text) ==
    IF text = <<>> THEN 0
    ELSE 10 * parseInt(SubSeq(text, 1, Len(text) - 1))
            + (CHOOSE d \in 0..9 : Digits[d + 1] = text[Len(text)])

LamportsPrefix == <<"i","n","s","u","f","f","i","c","i","e","n","t"," ","l","a","m","p","o","r","t","s"," ">>
LamportsNeed == <<","," ","n","e","e","d"," ">>

\* /insufficient lamports (\d+), need (\d+)/ matches s at position i.
lamportsMatchAt(s, i) ==
    LET a == i + Len(LamportsPrefix)
        b == a + digitRun(s, a)
        c == b + Len(LamportsNeed)
    IN  /\ startsWithAt(s, i, LamportsPrefix)
        /\ digitRun(s, a) >= 1
        /\ startsWithAt(s, b, LamportsNeed)
        /\ digitRun(s, c) >= 1

\* message.match(...): the capture groups of the leftmost match, <<>> for null.
lamportsMatch(s) ==
    IF \E i \in 1..Len(s) : lamportsMatchAt(s, i)
    THEN LET i == CHOOSE k \in 1..Len(s) :
                     lamportsMatchAt(s, k) /\ \A h \in 1..(k - 1) : ~lamportsMatchAt(s, h)
             a == i + Len(LamportsPrefix)
             b == a + digitRun(s, a)
             c == b + Len(LamportsNeed)
         IN  <<SubSeq(s, a, b - 1), SubSeq(s, c, c + digitRun(s, c) - 1)>>
    ELSE <<>>

\* (lamports / 1_000_000_000).toFixed(3): three decimals, rounded to nearest.
\* Exact ties are rounded away from zero here; the double of the source decides them.
toFixed3(lamports) ==
    LET magnitude == IF lamports < 0 THEN 0 - lamports ELSE lamports
        thousandths == (magnitude \div 1000000)
                          + (IF magnitude % 1000000 >= 500000 THEN 1 ELSE 0)
        frac == thousandths % 1000
    IN  (IF lamports < 0 THEN <<"-">> ELSE <<>>)
            \o numberToString(thousandths \div 1000) \o <<".">>
            \o <<Digits[(frac \div 100) + 1], Digits[((frac \div 10) % 10) + 1],
                 Digits[(frac % 10) + 1]>>

\* s.split(sep): the piece before the first sep and the piece after it up to the next sep.
splitFirst(s, sep) ==
    IF includes(s, sep) THEN SubSeq(s, 1, indexOf(s, sep) - 1) ELSE s

splitSecond(s, sep) ==
    splitFirst(SubSeq(s, indexOf(s, sep) + Len(sep), Len(s)), sep)

ErrorCodePrefix == <<"E","r","r","o","r"," ","C","o","d","e",":"," ">>
ErrorMessagePrefix == <<"E","r","r","o","r"," ","M","e","s","s","a","g","e",":"," ">>

\* originalMessage.match(/Error Code: (\w+)/): the capture group, <<>> for null.
errorCodeMatch(s) ==
    LET hit(i) == startsWithAt(s, i, ErrorCodePrefix)
                    /\ wordRun(s, i + Len(ErrorCodePrefix)) >= 1
    IN  IF \E i \in 1..Len(s) : hit(i)
        THEN LET i == CHOOSE k \in 1..Len(s) : hit(k) /\ \A h \in 1..(k - 1) : ~hit(h)
                 a == i + Len(ErrorCodePrefix)
             IN  SubSeq(s, a, a + wordRun(s, a) - 1)
        ELSE <<>>

\* originalMessage.split('Error Message: ')[1]?.split('.')[0] || default
anchorErrorDetail(s) ==
    LET detail == IF includes(s, ErrorMessagePrefix)
                  THEN splitFirst(splitSecond(s, ErrorMessagePrefix), <<".">>)
                  ELSE <<>>
    IN  IF detail = <<>> THEN <<"P","l","e","a","s","e"," ","t","r","y"," ","a","g","a","i","n"," ","o","r"," ","c","o","n","t","a","c","t"," ","s","u","p","p","o","r","t",".">> ELSE detail

formatLamports(groups) ==
    LET available == parseInt(groups[1])
        needed == parseInt(groups[2])
    IN  <<"I","n","s","u","f","f","i","c","i","e","n","t"," ","S","O","L"," ","b","a","l","a","n","c","e","."," ","Y","o","u"," ","h","a","v","e"," ">> \o toFixed3(available)
            \o <<" ","S","O","L"," ","b","u","t"," ","n","e","e","d"," ">> \o toFixed3(needed)
            \o <<" ","S","O","L","."," ","P","l","e","a","s","e"," ","a","d","d"," ">> \o toFixed3(needed - available)
            \o <<" ","m","o","r","e"," ","S","O","L"," ","t","o"," ","y","o","u","r"," ","w","a","l","l","e","t",".">>

\* Lines 207-236: the keyword tests on the lower-cased message, then the generic
\* Anchor error, then the fallback.
formatKeywordChain(message, originalMessage) ==
    IF includes(message, <<"b","l","o","c","k","h","a","s","h"," ","n","o","t"," ","f","o","u","n","d">>)
    THEN <<"N","e","t","w","o","r","k"," ","c","o","n","n","e","c","t","i","o","n"," ","i","s","s","u","e","."," ","P","l","e","a","s","e"," ","c","h","e","c","k"," ","y","o","u","r"," ","i","n","t","e","r","n","e","t"," ","c","o","n","n","e","c","t","i","o","n"," ","a","n","d"," ","t","r","y"," ","a","g","a","i","n",".">>
    ELSE IF includes(message, <<"i","n","s","u","f","f","i","c","i","e","n","t"," ","f","u","n","d","s">>)
    THEN <<"I","n","s","u","f","f","i","c","i","e","n","t"," ","S","O","L"," ","b","a","l","a","n","c","e"," ","t","o"," ","c","o","v","e","r"," ","t","r","a","n","s","a","c","t","i","o","n"," ","a","n","d"," ","f","e","e","s",".">>
    ELSE IF includes(message, <<"u","s","e","r"," ","r","e","j","e","c","t","e","d">>)
    THEN <<"T","r","a","n","s","a","c","t","i","o","n"," ","w","a","s"," ","c","a","n","c","e","l","l","e","d"," ","b","y"," ","u","s","e","r",".">>
    ELSE IF includes(message, <<"r","a","t","e"," ","l","i","m","i","t">>) \/ includes(message, <<"4","2","9">>)
    THEN <<"N","e","t","w","o","r","k"," ","i","s"," ","b","u","s","y","."," ","P","l","e","a","s","e"," ","w","a","i","t"," ","a"," ","m","o","m","e","n","t"," ","a","n","d"," ","t","r","y"," ","a","g","a","i","n",".">>
    ELSE IF includes(message, <<"t","i","m","e","o","u","t">>)
    THEN <<"T","r","a","n","s","a","c","t","i","o","n"," ","t","i","m","e","d"," ","o","u","t","."," ","P","l","e","a","s","e"," ","t","r","y"," ","a","g","a","i","n",".">>
    ELSE IF includes(message, <<"i","n","v","a","l","i","d"," ","p","r","o","g","r","a","m">>)
    THEN <<"S","m","a","r","t"," ","c","o","n","t","r","a","c","t"," ","e","r","r","o","r","."," ","P","l","e","a","s","e"," ","c","o","n","t","a","c","t"," ","s","u","p","p","o","r","t",".">>
    ELSE IF includes(message, <<"a","c","c","o","u","n","t","d","i","d","n","o","t","s","e","r","i","a","l","i","z","e">>)
    THEN <<"G","a","m","e"," ","a","c","c","o","u","n","t"," ","i","s"," ","c","o","r","r","u","p","t","e","d","."," ","T","r","y"," ","\"","H","a","n","d","l","e"," ","T","i","m","e","o","u","t","\""," ","o","r"," ","\"","L","e","a","v","e"," ","G","a","m","e","\"",".">>
    ELSE IF includes(message, <<"c","o","n","s","t","r","a","i","n","t","m","u","t">>) /\ includes(message, <<"p","l","a","y","e","r","_","2">>)
    THEN <<"C","a","n","n","o","t"," ","p","r","o","c","e","s","s",":"," ","G","a","m","e"," ","h","a","s"," ","n","o"," ","s","e","c","o","n","d"," ","p","l","a","y","e","r","."," ","T","r","y"," ","\"","L","e","a","v","e"," ","G","a","m","e","\""," ","i","n","s","t","e","a","d",".">>
    ELSE IF includes(message, <<"n","o"," ","s","e","c","o","n","d"," ","p","l","a","y","e","r">>)
    THEN <<"T","h","i","s"," ","g","a","m","e"," ","n","e","v","e","r"," ","h","a","d"," ","a"," ","s","e","c","o","n","d"," ","p","l","a","y","e","r","."," ","U","s","e"," ","\"","L","e","a","v","e"," ","G","a","m","e","\""," ","t","o"," ","e","x","i","t",".">>
    ELSE IF includes(originalMessage, <<"A","n","c","h","o","r","E","r","r","o","r">>)
            /\ includes(originalMessage, <<"E","r","r","o","r"," ","C","o","d","e",":">>)
            /\ errorCodeMatch(originalMessage) # <<>>
    THEN <<"G","a","m","e"," ","e","r","r","o","r"," ","(">> \o errorCodeMatch(originalMessage) \o <<")",":"," ">>
            \o anchorErrorDetail(originalMessage)
    ELSE <<"T","r","a","n","s","a","c","t","i","o","n"," ","f","a","i","l","e","d",":"," ">> \o originalMessage

\* Variant: the rate-limit and timeout tests come before the others.
formatKeywords_busyFirst(message, originalMessage) ==
    IF includes(message, <<"r","a","t","e"," ","l","i","m","i","t">>) \/ includes(message, <<"4","2","9">>)
    THEN <<"N","e","t","w","o","r","k"," ","i","s"," ","b","u","s","y","."," ","P","l","e","a","s","e"," ","w","a","i","t"," ","a"," ","m","o","m","e","n","t"," ","a","n","d"," ","t","r","y"," ","a","g","a","i","n",".">>
    ELSE IF includes(message, <<"t","i","m","e","o","u","t">>)
    THEN <<"T","r","a","n","s","a","c","t","i","o","n"," ","t","i","m","e","d"," ","o","u","t","."," ","P","l","e","a","s","e"," ","t","r","y"," ","a","g","a","i","n",".">>
    ELSE formatKeywordChain(message, originalMessage)

formatKeywords(message, originalMessage) == formatKeywordChain(message, originalMessage)

formatTransactionError(originalMessage) ==
    LET message == toLowerCase(originalMessage)
    IN  IF includes(originalMessage, <<"E","r","r","o","r"," ","C","o","d","e",":"," ","R","o","o","m","N","o","t","A","v","a","i","l","a","b","l","e">>)
           \/ includes(originalMessage, <<"E","r","r","o","r"," ","N","u","m","b","e","r",":"," ","6","0","0","2">>)
        THEN <<"T","h","i","s"," ","r","o","o","m"," ","i","s"," ","n","o"," ","l","o","n","g","e","r"," ","a","v","a","i","l","a","b","l","e"," ","f","o","r"," ","j","o","i","n","i","n","g","."," ","I","t"," ","m","a","y"," ","b","e"," ","f","u","l","l",","," ","e","x","p","i","r","e","d",","," ","o","r"," ","c","a","n","c","e","l","l","e","d"," ","b","y"," ","t","h","e"," ","c","r","e","a","t","o","r",".">>
        ELSE IF includes(originalMessage, <<"E","r","r","o","r"," ","C","o","d","e",":"," ","G","a","m","e","A","l","r","e","a","d","y","S","t","a","r","t","e","d">>)
           \/ includes(originalMessage, <<"E","r","r","o","r"," ","N","u","m","b","e","r",":"," ","6","0","0","1">>)
        THEN <<"C","a","n","n","o","t"," ","j","o","i","n",":"," ","T","h","i","s"," ","g","a","m","e"," ","h","a","s"," ","a","l","r","e","a","d","y"," ","s","t","a","r","t","e","d"," ","w","i","t","h"," ","a","n","o","t","h","e","r"," ","p","l","a","y","e","r",".">>
        ELSE IF includes(originalMessage, <<"E","r","r","o","r"," ","C","o","d","e",":"," ","I","n","v","a","l","i","d","G","a","m","e","S","t","a","t","e">>)
           \/ includes(originalMessage, <<"E","r","r","o","r"," ","N","u","m","b","e","r",":"," ","6","0","0","3">>)
        THEN <<"G","a","m","e"," ","i","s"," ","i","n"," ","a","n"," ","i","n","v","a","l","i","d"," ","s","t","a","t","e","."," ","T","r","y"," ","r","e","f","r","e","s","h","i","n","g"," ","t","h","e"," ","p","a","g","e"," ","o","r"," ","l","e","a","v","i","n","g"," ","t","h","e"," ","g","a","m","e",".">>
        ELSE IF includes(originalMessage, <<"E","r","r","o","r"," ","C","o","d","e",":"," ","S","e","l","e","c","t","i","o","n","T","i","m","e","E","x","p","i","r","e","d">>)
           \/ includes(originalMessage, <<"E","r","r","o","r"," ","N","u","m","b","e","r",":"," ","6","0","0","4">>)
        THEN <<"S","e","l","e","c","t","i","o","n"," ","t","i","m","e"," ","h","a","s"," ","e","x","p","i","r","e","d","."," ","U","s","e"," ","\"","H","a","n","d","l","e"," ","T","i","m","e","o","u","t","\""," ","t","o"," ","r","e","s","o","l","v","e"," ","t","h","e"," ","g","a","m","e",".">>
        ELSE IF includes(originalMessage, <<"E","r","r","o","r"," ","C","o","d","e",":"," ","I","n","s","u","f","f","i","c","i","e","n","t","F","u","n","d","s">>)
           \/ includes(originalMessage, <<"E","r","r","o","r"," ","N","u","m","b","e","r",":"," ","6","0","0","5">>)
        THEN <<"I","n","s","u","f","f","i","c","i","e","n","t"," ","S","O","L"," ","b","a","l","a","n","c","e"," ","t","o"," ","c","o","v","e","r"," ","t","h","e"," ","b","e","t"," ","a","m","o","u","n","t"," ","a","n","d"," ","t","r","a","n","s","a","c","t","i","o","n"," ","f","e","e","s",".">>
        ELSE IF includes(message, <<"i","n","s","u","f","f","i","c","i","e","n","t"," ","l","a","m","p","o","r","t","s">>)
        THEN IF lamportsMatch(message) # <<>>
             THEN formatLamports(lamportsMatch(message))
             ELSE <<"I","n","s","u","f","f","i","c","i","e","n","t"," ","S","O","L"," ","b","a","l","a","n","c","e"," ","t","o"," ","c","o","v","e","r"," ","t","h","e"," ","b","e","t"," ","a","m","o","u","n","t"," ","a","n","d"," ","t","r","a","n","s","a","c","t","i","o","n"," ","f","e","e","s",".">>
        ELSE formatKeywords(message, originalMessage)

\* ------------------------------------------------------------------------
\* Inputs: options, failures of the injected operations, timings
\* ------------------------------------------------------------------------

MaxRetriesOpt == 1

\* An option of RetryTransactionOptions: <<>> when the caller leaves it out,
\* <<v>> when the caller gives v.
Undefined == <<>>

MaxRetriesOptions == {Undefined} \cup {<<n>> : n \in 0..MaxRetriesOpt}
RetryDelayOptions == {Undefined, <<1>>}

ProgramLogicTexts ==
    { <<"R","o","o","m","N","o","t","A","v","a","i","l","a","b","l","e">>, <<"G","a","m","e","A","l","r","e","a","d","y","S","t","a","r","t","e","d">>, <<"I","n","v","a","l","i","d","G","a","m","e","S","t","a","t","e">>,
      <<"S","e","l","e","c","t","i","o","n","T","i","m","e","E","x","p","i","r","e","d">>, <<"E","r","r","o","r"," ","N","u","m","b","e","r",":"," ","6","0","0","1">>, <<"E","r","r","o","r"," ","N","u","m","b","e","r",":"," ","6","0","0","2">>,
      <<"E","r","r","o","r"," ","N","u","m","b","e","r",":"," ","6","0","0","3">>, <<"E","r","r","o","r"," ","N","u","m","b","e","r",":"," ","6","0","0","4">>, <<"E","r","r","o","r"," ","N","u","m","b","e","r",":"," ","6","0","0","5">>,
      <<"A","n","c","h","o","r","E","r","r","o","r"," ","o","c","c","u","r","r","e","d","."," ","E","r","r","o","r"," ","C","o","d","e",":"," ","R","o","o","m","N","o","t","A","v","a","i","l","a","b","l","e","."," ","E","r","r","o","r"," ","N","u","m","b","e","r",":"," ","6","0","0","2","."," ","E","r","r","o","r"," ","M","e","s","s","a","g","e",":"," ","R","o","o","m"," ","i","s"," ","n","o","t"," ","a","v","a","i","l","a","b","l","e"," ","f","o","r"," ","j","o","i","n","i","n","g",".">> }

FatalOtherTexts ==
    { <<"i","n","s","u","f","f","i","c","i","e","n","t"," ","f","u","n","d","s"," ","f","o","r"," ","f","e","e">>,
      <<"T","r","a","n","s","f","e","r",":"," ","i","n","s","u","f","f","i","c","i","e","n","t"," ","l","a","m","p","o","r","t","s"," ","5","0","0","0","0","0","0","0","0",","," ","n","e","e","d"," ","1","0","0","0","0","0","0","0","0","0">>,
      <<"I","n","v","a","l","i","d"," ","p","r","o","g","r","a","m"," ","i","d">>,
      <<"A","n","c","h","o","r","E","r","r","o","r"," ","c","a","u","s","e","d"," ","b","y"," ","a","c","c","o","u","n","t",":"," ","p","l","a","y","e","r","_","2","."," ","E","r","r","o","r"," ","C","o","d","e",":"," ","C","o","n","s","t","r","a","i","n","t","M","u","t","."," ","E","r","r","o","r"," ","N","u","m","b","e","r",":"," ","2","0","0","0","."," ","E","r","r","o","r"," ","M","e","s","s","a","g","e",":"," ","A"," ","m","u","t"," ","c","o","n","s","t","r","a","i","n","t"," ","w","a","s"," ","v","i","o","l","a","t","e","d",".">>,
      <<"G","a","m","e"," ","h","a","s"," ","n","o"," ","s","e","c","o","n","d"," ","p","l","a","y","e","r">> }

UserRejectionTexts ==
    { <<"U","s","e","r"," ","r","e","j","e","c","t","e","d"," ","t","h","e"," ","r","e","q","u","e","s","t",".">>,
      <<"W","a","l","l","e","t","S","i","g","n","T","r","a","n","s","a","c","t","i","o","n","E","r","r","o","r",":"," ","u","s","e","r"," ","r","e","j","e","c","t","e","d"," ","t","h","e"," ","r","e","q","u","e","s","t">>,
      <<"U","S","E","R"," ","R","E","J","E","C","T","E","D">>,
      <<"W","a","l","l","e","t"," ","r","e","q","u","e","s","t"," ","t","i","m","e","o","u","t",":"," ","u","s","e","r"," ","r","e","j","e","c","t","e","d"," ","t","h","e"," ","r","e","q","u","e","s","t">>,
      <<"U","s","e","r"," ","r","e","j","e","c","t","e","d"," ","t","h","e"," ","r","e","q","u","e","s","t","."," ","E","r","r","o","r"," ","N","u","m","b","e","r",":"," ","6","0","0","2">> }

RetryableTexts ==
    { <<"N","e","t","w","o","r","k"," ","r","e","q","u","e","s","t"," ","f","a","i","l","e","d">>,
      <<"T","r","a","n","s","a","c","t","i","o","n"," ","s","i","m","u","l","a","t","i","o","n"," ","f","a","i","l","e","d",":"," ","B","l","o","c","k","h","a","s","h"," ","n","o","t"," ","f","o","u","n","d">>,
      <<"A","n","c","h","o","r","E","r","r","o","r"," ","o","c","c","u","r","r","e","d","."," ","E","r","r","o","r"," ","C","o","d","e",":"," ","A","c","c","o","u","n","t","D","i","d","N","o","t","S","e","r","i","a","l","i","z","e","."," ","E","r","r","o","r"," ","N","u","m","b","e","r",":"," ","3","0","0","4","."," ","E","r","r","o","r"," ","M","e","s","s","a","g","e",":"," ","F","a","i","l","e","d"," ","t","o"," ","s","e","r","i","a","l","i","z","e"," ","t","h","e"," ","a","c","c","o","u","n","t",".">> }

UnknownTexts ==
    { <<"S","o","m","e","t","h","i","n","g"," ","w","e","n","t"," ","w","r","o","n","g">>,
      <<"I","n","s","u","f","f","i","c","i","e","n","t"," ","F","u","n","d","s">> }

SimulationPrefix == <<"T","r","a","n","s","a","c","t","i","o","n"," ","s","i","m","u","l","a","t","i","o","n"," ","f","a","i","l","e","d",":"," ">>

\* What transaction() may reject with.
SendErrors ==
    ProgramLogicTexts \cup FatalOtherTexts \cup UserRejectionTexts
        \cup RetryableTexts \cup UnknownTexts
        \cup {SimulationPrefix \o t : t \in ProgramLogicTexts \cup FatalOtherTexts}

\* What connection.getLatestBlockhash may reject with.
FetchErrors ==
    { <<"f","a","i","l","e","d"," ","t","o"," ","g","e","t"," ","r","e","c","e","n","t"," ","b","l","o","c","k","h","a","s","h",":"," ","T","y","p","e","E","r","r","o","r",":"," ","f","e","t","c","h"," ","f","a","i","l","e","d">>,
      <<"U","n","e","x","p","e","c","t","e","d"," ","s","e","r","v","e","r"," ","r","e","s","p","o","n","s","e">> }

\* What connection.confirmTransaction may reject with.
ConfirmErrors ==
    { <<"S","i","g","n","a","t","u","r","e"," ","h","a","s"," ","e","x","p","i","r","e","d",":"," ","b","l","o","c","k"," ","h","e","i","g","h","t"," ","e","x","c","e","e","d","e","d",".">> }

\* On-chain error payloads the confirmation may carry in value.err.
ErrPayloads ==
    { [index |-> 0, custom |-> 6002],
      [index |-> 1, custom |-> 1429] }

NetLatencies == {20}
ConfirmLatencies == {400}
JitterSamples == {0, 499}


\* ------------------------------------------------------------------------
\* State of one call of retryTransaction
\* ------------------------------------------------------------------------

VARIABLES
    maxRetries,     \* options.maxRetries after defaulting
    retryDelay,     \* options.retryDelay after defaulting
    pc,             \* the await the call is suspended at, or "done" / "failed"
    attempt,        \* the loop variable
    lastError,      \* message of lastError
    reference,      \* { blockhash, lastValidBlockHeight } of the current try block
    signature,      \* signature returned by transaction() in the current try block
    confirmArgs,    \* what confirmTransaction was last called with
    timerAt,        \* when the current attempt's setTimeout(60000) fires
    delay,          \* the backoff delay last computed
    now,            \* milliseconds since the call began
    returned,       \* the signature the call resolved with (pc = "done")
    thrown,         \* message of the error the call rejected with (pc = "failed")
    fetches,        \* invocations of connection.getLatestBlockhash so far
    sends,          \* invocations of transaction() so far
    refAttempt,     \* the attempt in which reference was fetched
    sigAt,          \* when the current signature was obtained
    confirmedAt,    \* when the awaited confirmation resolved without err
    caughtIn,       \* the attempt whose catch block last ran
    raised,         \* message of the error the catch block last received
    raisedBy,       \* what rejected with it: "fetch", "send", "confirm", "err", "timer"
    ledger,         \* per invocation of transaction(): fate of what it broadcast
    timers,         \* deadlines of the 60 s timers that lost their race, still armed
    errorText,      \* an error message handed to formatTransactionError
    display         \* what formatTransactionError returned for it

vars ==
    <<maxRetries, retryDelay, pc, attempt, lastError, reference, signature,
      confirmArgs, timerAt, delay, now, returned, thrown, fetches, sends,
      refAttempt, sigAt, confirmedAt, caughtIn, raised, raisedBy, ledger,
      timers, errorText, display>>

NoSignature == 0
NoReference == 0
NoTime == -1
NoAttempt == -1
NoMessage == <<>>

destructure(option, default) == IF option = Undefined THEN default ELSE option[1]

Init ==
    /\ \E mr \in MaxRetriesOptions, rd \in RetryDelayOptions :
          /\ maxRetries = destructure(mr, DefaultMaxRetries)
          /\ retryDelay = destructure(rd, DefaultRetryDelay)
    /\ pc = "fetch"
    /\ attempt = 0
    /\ lastError = InitialErrorMessage
    /\ reference = NoReference
    /\ signature = NoSignature
    /\ confirmArgs = [signature |-> NoSignature, reference |-> NoReference]
    /\ timerAt = NoTime
    /\ delay = 0
    /\ now = 0
    /\ returned = NoSignature
    /\ thrown = NoMessage
    /\ fetches = 1
    /\ sends = 0
    /\ refAttempt = NoAttempt
    /\ sigAt = NoTime
    /\ confirmedAt = NoTime
    /\ caughtIn = NoAttempt
    /\ raised = NoMessage
    /\ raisedBy = "none"
    /\ ledger = <<>>
    /\ timers = {}
    /\ errorText = NoMessage
    /\ display = NoMessage

\* ------------------------------------------------------------------------
\* The catch block (lines 66-137): runs in the same turn as the rejection
\* ------------------------------------------------------------------------

\* 2 ** attempt
RECURSIVE pow2(_)
pow2(n) == IF n = 0 THEN 1 ELSE 2 * pow2(n - 1)

\* Variant: the delay does not grow with the attempt.
baseDelay_flat == retryDelay

\* Variant: the delay is not scaled by retryDelay.
baseDelay_unscaled == pow2(attempt)

\* Variant: the delay grows linearly with the attempt.
baseDelay_linear == retryDelay * (attempt + 1)

baseDelay == retryDelay * pow2(attempt)

\* Variant: the budget test is off by one.
lastAttempt_offByOne == attempt = maxRetries + 1

\* attempt === maxRetries (line 117)
lastAttempt == attempt = maxRetries

\* Variant: the rejection carries the sentence of formatTransactionError.
giveUpError_formatted(message) == formatTransactionError(message)

\* What the call rejects with when it gives up at once (lines 108-113).
giveUpError(message) ==
    IF isUserRejected(message) THEN UserCancelledMessage ELSE message

\* Variant: only the first error caught is kept.
caughtError_firstOnly(error) == IF caughtIn = NoAttempt THEN error ELSE lastError

\* lastError = error as Error (line 67)
caughtError(error) == error

\* error, rejected by `by`, is caught at time t.  The branch taken, and what it
\* leaves behind.
Catch(error, t, by) ==
    /\ lastError' = caughtError(error)
    /\ raised' = error
    /\ raisedBy' = by
    /\ caughtIn' = attempt
    /\ now' = t
    /\ IF isNonRetryable(caughtError(error))
       THEN /\ pc' = "failed"
            /\ thrown' = giveUpError(caughtError(error))
            /\ UNCHANGED <<attempt, delay>>
       ELSE IF lastAttempt
       THEN /\ pc' = "failed"
            /\ thrown' = caughtError(error)
            /\ UNCHANGED <<attempt, delay>>
       ELSE /\ \E jitter \in JitterSamples : delay' = baseDelay + jitter
            /\ pc' = "backoff"
            /\ UNCHANGED <<attempt, thrown>>


\* ------------------------------------------------------------------------
\* The try block (lines 22-65), one action per resumption of an await
\* ------------------------------------------------------------------------

\* transaction() is invoked (line 33); nothing is known yet of what it sends.
invokeTransaction ==
    /\ pc' = "send"
    /\ sends' = sends + 1
    /\ ledger' = Append(ledger, "unsent")

\* Variant: the reference of the first attempt is kept for the later ones.
FetchOk_stale(d) ==
    /\ pc = "fetch"
    /\ now' = now + d
    /\ reference' = 1
    /\ refAttempt' = 0
    /\ IF attempt > 0
       THEN pc' = "refresh" /\ UNCHANGED <<sends, ledger>>
       ELSE invokeTransaction
    /\ UNCHANGED <<maxRetries, retryDelay, attempt, lastError, signature, confirmArgs,
                   timerAt, delay, returned, thrown, fetches, sigAt, confirmedAt,
                   caughtIn, raised, raisedBy, timers, errorText,
                   display>>

\* await connection.getLatestBlockhash('confirmed') resolves (line 24).
FetchOk(d) ==
    /\ pc = "fetch"
    /\ now' = now + d
    /\ reference' = fetches
    /\ refAttempt' = attempt
    /\ IF attempt > 0
       THEN pc' = "refresh" /\ UNCHANGED <<sends, ledger>>
       ELSE invokeTransaction
    /\ UNCHANGED <<maxRetries, retryDelay, attempt, lastError, signature, confirmArgs,
                   timerAt, delay, returned, thrown, fetches, sigAt, confirmedAt,
                   caughtIn, raised, raisedBy, timers, errorText,
                   display>>

\* Variant: a failed getLatestBlockhash ends the call whatever the error is.
FetchFails_fatal(error, d) ==
    /\ pc = "fetch"
    /\ lastError' = error
    /\ raised' = error
    /\ raisedBy' = "fetch"
    /\ caughtIn' = attempt
    /\ now' = now + d
    /\ pc' = "failed"
    /\ thrown' = error
    /\ UNCHANGED <<maxRetries, retryDelay, attempt, delay, reference, signature,
                   confirmArgs, timerAt, returned, fetches, sends, refAttempt, sigAt,
                   confirmedAt, ledger, timers, errorText, display>>

\* await connection.getLatestBlockhash('confirmed') rejects.
FetchFails(error, d) ==
    /\ pc = "fetch"
    /\ Catch(error, now + d, "fetch")
    /\ UNCHANGED <<maxRetries, retryDelay, reference, signature, confirmArgs, timerAt,
                   returned, fetches, sends, refAttempt, sigAt, confirmedAt, ledger, timers, errorText,
                   display>>

\* The 300 ms pause of every attempt after the first has elapsed (lines 27-31).
RefreshDone ==
    /\ pc = "refresh"
    /\ now' = now + RefreshDelayMs
    /\ invokeTransaction
    /\ UNCHANGED <<maxRetries, retryDelay, attempt, lastError, reference, signature,
                   confirmArgs, timerAt, delay, returned, thrown, fetches, refAttempt,
                   sigAt, confirmedAt, caughtIn, raised, raisedBy, timers, errorText,
                   display>>

\* Variant: the 60 s are counted from the start of the call.
SendOk_deadlineFromStart(d) ==
    /\ pc = "send"
    /\ now' = now + d
    /\ signature' = sends
    /\ sigAt' = now + d
    /\ confirmArgs' = [signature |-> sends, reference |-> reference]
    /\ timerAt' = IF now + d < ConfirmTimeoutMs THEN ConfirmTimeoutMs ELSE now + d + 1
    /\ ledger' = [ledger EXCEPT ![sends] = "pending"]
    /\ pc' = "race"
    /\ UNCHANGED <<maxRetries, retryDelay, attempt, lastError, reference, delay,
                   returned, thrown, fetches, sends, refAttempt, confirmedAt, caughtIn,
                   raised, raisedBy, timers, errorText, display>>

\* await transaction() resolves with a signature; confirmTransaction is called
\* and the 60 s timer is armed (lines 33-53).
SendOk(d) ==
    /\ pc = "send"
    /\ now' = now + d
    /\ signature' = sends
    /\ sigAt' = now + d
    /\ confirmArgs' = [signature |-> sends, reference |-> reference]
    /\ timerAt' = now + d + ConfirmTimeoutMs
    /\ ledger' = [ledger EXCEPT ![sends] = "pending"]
    /\ pc' = "race"
    /\ UNCHANGED <<maxRetries, retryDelay, attempt, lastError, reference, delay,
                   returned, thrown, fetches, sends, refAttempt, confirmedAt, caughtIn, raised, raisedBy, timers, errorText,
                   display>>

\* await transaction() rejects.
SendFails(error, d) ==
    /\ pc = "send"
    /\ Catch(error, now + d, "send")
    /\ UNCHANGED <<maxRetries, retryDelay, reference, signature, confirmArgs, timerAt,
                   returned, fetches, sends, refAttempt, sigAt, confirmedAt, ledger, timers, errorText,
                   display>>

\* The confirmation wins the race and carries no err (lines 53-63).
ConfirmOk(d) ==
    /\ pc = "race"
    /\ now + d < timerAt
    /\ timers' = timers \cup {timerAt}
    /\ now' = now + d
    /\ confirmedAt' = now + d
    /\ ledger' = [ledger EXCEPT ![signature] = "confirmed"]
    /\ pc' = "settle"
    /\ UNCHANGED <<maxRetries, retryDelay, attempt, lastError, reference, signature,
                   confirmArgs, timerAt, delay, returned, thrown, fetches, sends,
                   refAttempt, sigAt, caughtIn, raised, raisedBy, errorText,
                   display>>

\* Variant: value.err is not looked at.
ConfirmErr_unchecked(err, d) ==
    /\ pc = "race"
    /\ now + d < timerAt
    /\ timers' = timers \cup {timerAt}
    /\ now' = now + d
    /\ confirmedAt' = now + d
    /\ ledger' = [ledger EXCEPT ![signature] = "failed"]
    /\ pc' = "settle"
    /\ UNCHANGED <<maxRetries, retryDelay, attempt, lastError, reference, signature,
                   confirmArgs, timerAt, delay, returned, thrown, fetches, sends,
                   refAttempt, sigAt, caughtIn, raised, raisedBy, errorText,
                   display>>

\* The confirmation wins the race and carries value.err (lines 55-58).
ConfirmErr(err, d) ==
    /\ pc = "race"
    /\ now + d < timerAt
    /\ timers' = timers \cup {timerAt}
    /\ ledger' = [ledger EXCEPT ![signature] = "failed"]
    /\ Catch(onChainFailureMessage(err), now + d, "err")
    /\ UNCHANGED <<maxRetries, retryDelay, reference, signature, confirmArgs, timerAt,
                   returned, fetches, sends, refAttempt, sigAt, confirmedAt, errorText,
                   display>>

\* connection.confirmTransaction rejects before the timer fires.
ConfirmRejects(error, d) ==
    /\ pc = "race"
    /\ now + d < timerAt
    /\ timers' = timers \cup {timerAt}
    /\ Catch(error, now + d, "confirm")
    /\ UNCHANGED <<maxRetries, retryDelay, reference, signature, confirmArgs, timerAt,
                   returned, fetches, sends, refAttempt, sigAt, confirmedAt, ledger, errorText,
                   display>>

\* The 60 s timer wins the race (lines 49-53); the confirmation stays outstanding.
TimerFires ==
    /\ pc = "race"
    /\ Catch(ConfirmationTimeoutMessage, timerAt, "timer")
    /\ UNCHANGED <<maxRetries, retryDelay, reference, signature, confirmArgs, timerAt,
                   returned, fetches, sends, refAttempt, sigAt, confirmedAt, ledger, timers, errorText,
                   display>>

\* Variant: the loop goes on after a confirmed attempt.
SettleDone_again ==
    /\ pc = "settle"
    /\ attempt < maxRetries
    /\ now' = now + SettleDelayMs
    /\ attempt' = attempt + 1
    /\ fetches' = fetches + 1
    /\ pc' = "fetch"
    /\ UNCHANGED <<maxRetries, retryDelay, lastError, reference, signature, confirmArgs,
                   timerAt, delay, returned, thrown, sends, refAttempt, sigAt,
                   confirmedAt, caughtIn, raised, raisedBy, ledger, timers, errorText,
                   display>>

\* The 1000 ms pause after a confirmation has elapsed; return signature (63-65).
SettleDone ==
    /\ pc = "settle"
    /\ now' = now + SettleDelayMs
    /\ returned' = signature
    /\ pc' = "done"
    /\ UNCHANGED <<maxRetries, retryDelay, attempt, lastError, reference, signature,
                   confirmArgs, timerAt, delay, thrown, fetches, sends, refAttempt,
                   sigAt, confirmedAt, caughtIn, raised, raisedBy, ledger, timers, errorText,
                   display>>

\* The backoff pause has elapsed (line 128); attempt++ and the next iteration
\* calls getLatestBlockhash (lines 21-24).
BackoffDone ==
    /\ pc = "backoff"
    /\ now' = now + delay
    /\ attempt' = attempt + 1
    /\ fetches' = fetches + 1
    /\ pc' = "fetch"
    /\ reference' = NoReference
    /\ refAttempt' = NoAttempt
    /\ signature' = NoSignature
    /\ sigAt' = NoTime
    /\ timerAt' = NoTime
    /\ confirmedAt' = NoTime
    /\ confirmArgs' = [signature |-> NoSignature, reference |-> NoReference]
    /\ UNCHANGED <<maxRetries, retryDelay, lastError, delay, returned, thrown, sends,
                   caughtIn, raised, raisedBy, ledger, timers, errorText,
                   display>>

\* ------------------------------------------------------------------------
\* What the losers of the race do later; the call no longer waits for them
\* ------------------------------------------------------------------------

awaited(i) == pc = "race" /\ i = signature

\* A confirmation the call stopped waiting for settles: the ledger confirms the
\* transaction or fails it, or the wait itself is rejected ("dropped").
LateConfirmation(i, fate) ==
    /\ i \in 1..Len(ledger)
    /\ ledger[i] = "pending"
    /\ ~awaited(i)
    /\ ledger' = [ledger EXCEPT ![i] = fate]
    /\ UNCHANGED <<maxRetries, retryDelay, pc, attempt, lastError, reference, signature,
                   confirmArgs, timerAt, delay, now, returned, thrown, fetches, sends,
                   refAttempt, sigAt, confirmedAt, caughtIn, raised, raisedBy, timers, errorText,
                   display>>

\* Variant: the rejection of a timer that lost its race is caught by the call.
LateTimerFires_heard(t) ==
    /\ t \in timers
    /\ now >= t \/ pc \in {"done", "failed"}
    /\ timers' = timers \ {t}
    /\ Catch(ConfirmationTimeoutMessage, now, "timer")
    /\ UNCHANGED <<maxRetries, retryDelay, reference, signature, confirmArgs, timerAt,
                   returned, fetches, sends, refAttempt, sigAt, confirmedAt, ledger,
                   errorText, display>>

\* A timer that lost its race fires: its rejection reaches Promise.race, which
\* has settled already.  Once the call has ended, time passes freely.
LateTimerFires(t) ==
    /\ t \in timers
    /\ now >= t \/ pc \in {"done", "failed"}
    /\ timers' = timers \ {t}
    /\ UNCHANGED <<maxRetries, retryDelay, pc, attempt, lastError, reference, signature,
                   confirmArgs, timerAt, delay, now, returned, thrown, fetches, sends,
                   refAttempt, sigAt, confirmedAt, caughtIn, raised, raisedBy, ledger, errorText,
                   display>>

Next ==
    \/ \E d \in NetLatencies : FetchOk(d)
    \/ \E e \in FetchErrors, d \in NetLatencies : FetchFails(e, d)
    \/ RefreshDone
    \/ \E d \in NetLatencies : SendOk(d)
    \/ \E e \in SendErrors, d \in NetLatencies : SendFails(e, d)
    \/ \E d \in ConfirmLatencies : ConfirmOk(d)
    \/ \E p \in ErrPayloads, d \in ConfirmLatencies : ConfirmErr(p, d)
    \/ \E e \in ConfirmErrors, d \in ConfirmLatencies : ConfirmRejects(e, d)
    \/ TimerFires
    \/ SettleDone
    \/ BackoffDone
    \/ \E i \in 1..Len(ledger), fate \in {"confirmed", "failed", "dropped"} :
          LateConfirmation(i, fate)
    \/ \E t \in timers : LateTimerFires(t)

Spec == Init /\ [][Next]_vars

\* The steps of the call itself: every await it is suspended at is resumed,
\* by the awaited operation settling or by a timer of the runtime firing.
Step ==
    \/ \E d \in NetLatencies : FetchOk(d)
    \/ \E e \in FetchErrors, d \in NetLatencies : FetchFails(e, d)
    \/ RefreshDone
    \/ \E d \in NetLatencies : SendOk(d)
    \/ \E e \in SendErrors, d \in NetLatencies : SendFails(e, d)
    \/ \E d \in ConfirmLatencies : ConfirmOk(d)
    \/ \E p \in ErrPayloads, d \in ConfirmLatencies : ConfirmErr(p, d)
    \/ \E e \in ConfirmErrors, d \in ConfirmLatencies : ConfirmRejects(e, d)
    \/ TimerFires
    \/ SettleDone
    \/ BackoffDone

\* getLatestBlockhash and transaction() always settle and timers always fire;
\* the confirmation may stay outstanding for ever.
FairSpec == Spec /\ WF_vars(Step)

\* ------------------------------------------------------------------------
\* formatTransactionError applied to a message (lines 170-237)
\* ------------------------------------------------------------------------
\* Texts an error message is made of: wallet rejections in several cases, the
\* markers the formatter tests before and after 'user rejected', and others.
FormatFragments ==
    { <<"U","s","e","r"," ","r","e","j","e","c","t","e","d"," ","t","h","e"," ","r","e","q","u","e","s","t",".">>,
      <<"u","s","e","r"," ","r","e","j","e","c","t","e","d">>,
      <<"U","S","E","R"," ","R","E","J","E","C","T","E","D">>,
      <<"E","r","r","o","r"," ","N","u","m","b","e","r",":"," ","6","0","0","2">>,
      <<"E","r","r","o","r"," ","C","o","d","e",":"," ","G","a","m","e","A","l","r","e","a","d","y","S","t","a","r","t","e","d">>,
      <<"i","n","s","u","f","f","i","c","i","e","n","t"," ","l","a","m","p","o","r","t","s"," ","5","0","0","0","0","0","0","0","0",","," ","n","e","e","d"," ","1","0","0","0","0","0","0","0","0","0">>,
      <<"B","l","o","c","k","h","a","s","h"," ","n","o","t"," ","f","o","u","n","d">>,
      <<"I","n","s","u","f","f","i","c","i","e","n","t"," ","f","u","n","d","s">>,
      <<"4","2","9"," ","T","o","o"," ","M","a","n","y"," ","R","e","q","u","e","s","t","s">>,
      <<"R","e","q","u","e","s","t"," ","t","i","m","e","o","u","t">>,
      <<"I","n","v","a","l","i","d"," ","p","r","o","g","r","a","m"," ","i","d">>,
      <<"A","n","c","h","o","r","E","r","r","o","r"," ","o","c","c","u","r","r","e","d","."," ","E","r","r","o","r"," ","C","o","d","e",":"," ","C","u","s","t","o","m","."," ","E","r","r","o","r"," ","M","e","s","s","a","g","e",":"," ","O","o","p","s",".">>,
      <<"S","o","m","e","t","h","i","n","g"," ","w","e","n","t"," ","w","r","o","n","g">> }

\* A message is one fragment, or two joined as wrapped errors are.
FormatInputs ==
    FormatFragments \cup { a \o <<":"," ">> \o b : a, b \in FormatFragments }

\* No retryTransaction call is in progress.
FormatInit ==
    /\ errorText \in FormatInputs
    /\ display = NoMessage
    /\ maxRetries = DefaultMaxRetries
    /\ retryDelay = DefaultRetryDelay
    /\ pc = "idle"
    /\ attempt = 0
    /\ lastError = InitialErrorMessage
    /\ reference = NoReference
    /\ signature = NoSignature
    /\ confirmArgs = [signature |-> NoSignature, reference |-> NoReference]
    /\ timerAt = NoTime
    /\ delay = 0
    /\ now = 0
    /\ returned = NoSignature
    /\ thrown = NoMessage
    /\ fetches = 0
    /\ sends = 0
    /\ refAttempt = NoAttempt
    /\ sigAt = NoTime
    /\ confirmedAt = NoTime
    /\ caughtIn = NoAttempt
    /\ raised = NoMessage
    /\ raisedBy = "none"
    /\ ledger = <<>>
    /\ timers = {}

\* const shown = formatTransactionError(error)
Format ==
    /\ display = NoMessage
    /\ errorText # NoMessage
    /\ display' = formatTransactionError(errorText)
    /\ UNCHANGED <<maxRetries, retryDelay, pc, attempt, lastError, reference, signature,
                   confirmArgs, timerAt, delay, now, returned, thrown, fetches, sends,
                   refAttempt, sigAt, confirmedAt, caughtIn, raised, raisedBy, ledger,
                   timers, errorText>>

FormatNext == Format

FormatSpec == FormatInit /\ [][FormatNext]_vars


\* ------------------------------------------------------------------------
\* Properties
\* ------------------------------------------------------------------------

\* The catch block has run in the current attempt, on lastError.
caughtNow == caughtIn = attempt

\* The message contains text, letter case ignored.
mentions(message, text) == includes(toLowerCase(message), toLowerCase(text))

ProgramLogicMarkers ==
    { <<"R","o","o","m","N","o","t","A","v","a","i","l","a","b","l","e">>, <<"G","a","m","e","A","l","r","e","a","d","y","S","t","a","r","t","e","d">>, <<"I","n","v","a","l","i","d","G","a","m","e","S","t","a","t","e">>,
      <<"S","e","l","e","c","t","i","o","n","T","i","m","e","E","x","p","i","r","e","d">>, <<"E","r","r","o","r"," ","N","u","m","b","e","r",":"," ","6","0","0","1">>, <<"E","r","r","o","r"," ","N","u","m","b","e","r",":"," ","6","0","0","2">>,
      <<"E","r","r","o","r"," ","N","u","m","b","e","r",":"," ","6","0","0","3">>, <<"E","r","r","o","r"," ","N","u","m","b","e","r",":"," ","6","0","0","4">> }

hasProgramLogicMarker(message) ==
    \E marker \in ProgramLogicMarkers : includes(message, marker)

\* C1: a call makes at most maxRetries + 1 attempts (reference fetches, each
\* followed by at most one invocation of the send function); a call that fails
\* on an error with a retryable marker and no fatal marker has made exactly
\* maxRetries + 1 attempts, and no backoff is begun once the budget is spent.
C1_AttemptBudget ==
    /\ attempt <= maxRetries
    /\ fetches = attempt + 1
    /\ fetches <= maxRetries + 1
    /\ sends <= fetches
    /\ (pc = "backoff" => attempt < maxRetries)
    /\ (pc = "failed" /\ isRetryableError(lastError) /\ ~isNonRetryable(lastError)
            => fetches = maxRetries + 1 /\ thrown = lastError)

C1_Witness ==
    /\ pc = "failed"
    /\ maxRetries = DefaultMaxRetries
    /\ fetches = maxRetries + 1
    /\ isRetryableError(lastError)
    /\ ~isNonRetryable(lastError)

\* C2: an error whose message contains a program-logic marker ends the call in
\* the attempt that raised it, whatever maxRetries is and whatever retryable
\* marker the message also contains; raised by the first attempt, the call has
\* made exactly one attempt.
C2_ProgramLogicNeverRetried ==
    (caughtIn # NoAttempt /\ hasProgramLogicMarker(lastError))
        => /\ pc = "failed"
           /\ caughtNow
           /\ fetches = caughtIn + 1
           /\ sends <= caughtIn + 1
           /\ (caughtIn = 0 => fetches = 1 /\ sends <= 1)

C2_Witness ==
    /\ pc = "failed"
    /\ maxRetries >= 1
    /\ fetches = 1
    /\ sends = 1
    /\ includes(lastError, <<"E","r","r","o","r"," ","N","u","m","b","e","r",":"," ","6","0","0","4">>)
    /\ mentions(lastError, <<"s","i","m","u","l","a","t","i","o","n"," ","f","a","i","l","e","d">>)

\* No recognised marker: no program-logic, cancellation, retryable or fatal-other one.
unrecognised(message) ==
    /\ ~hasProgramLogicMarker(message)
    /\ ~includes(message, <<"E","r","r","o","r"," ","N","u","m","b","e","r",":"," ","6","0","0","5">>)
    /\ ~mentions(message, <<"u","s","e","r"," ","r","e","j","e","c","t","e","d">>)
    /\ ~isRetryableError(message)
    /\ ~hasFatalOtherMarker(message)

\* C3: an attempt that fails with an error matching none of the recognised
\* markers is the last one: the call is rejected with that very error, whatever
\* budget remains.
C3_UnknownNeverRetried ==
    (caughtIn # NoAttempt /\ unrecognised(lastError))
        => /\ pc = "failed"
           /\ caughtNow
           /\ thrown = lastError
           /\ fetches = caughtIn + 1

C3_Witness ==
    /\ pc = "failed"
    /\ lastError = <<"S","o","m","e","t","h","i","n","g"," ","w","e","n","t"," ","w","r","o","n","g">>
    /\ attempt >= 1
    /\ attempt < maxRetries

\* C4: an error whose message contains 'user rejected' in any letter case ends
\* the call in the attempt that raised it, and the call is rejected with the
\* fixed sentence 'Transaction was cancelled by user.', never the raw message.
C4_UserRejectionAnyCase ==
    (caughtIn # NoAttempt /\ mentions(lastError, <<"u","s","e","r"," ","r","e","j","e","c","t","e","d">>))
        => /\ pc = "failed"
           /\ caughtNow
           /\ thrown = UserCancelledMessage

\* The call gave up on a fatal verdict: the catch block took the give-up branch.
fatalVerdict(message) ==
    \/ hasProgramLogicMarker(message)
    \/ includes(message, <<"E","r","r","o","r"," ","N","u","m","b","e","r",":"," ","6","0","0","5">>)
    \/ includes(message, <<"U","s","e","r"," ","r","e","j","e","c","t","e","d">>)
    \/ hasFatalOtherMarker(message)
    \/ ~isRetryableError(message)

C6_FreshReference ==
    /\ (pc \in {"refresh", "send", "race", "settle"}
            => /\ refAttempt = attempt
               /\ reference = attempt + 1
               /\ reference = fetches)
    /\ (pc \in {"race", "settle"}
            => /\ confirmArgs.reference = reference
               /\ confirmArgs.reference = attempt + 1
               /\ confirmArgs.signature = signature
               /\ signature = sends)

C6_Witness ==
    /\ pc = "race"
    /\ attempt = 2
    /\ confirmArgs.reference = 3
    /\ sends = 2

timedOut ==
    /\ caughtNow
    /\ lastError = ConfirmationTimeoutMessage
    /\ pc \in {"backoff", "failed"}

\* C7: an attempt whose confirmation does not resolve fails with the timeout
\* error exactly 60 s after its signature was obtained; the timeout is retried
\* while budget remains and ends the call with the timeout error when
\* attempt = maxRetries; and, getLatestBlockhash and transaction() always
\* settling, every call eventually returns or fails.
C7_TimeoutThenTermination ==
    /\ [](pc = "race" => timerAt = sigAt + ConfirmTimeoutMs /\ now < timerAt)
    /\ [](timedOut
            => /\ now = sigAt + ConfirmTimeoutMs
               /\ (attempt < maxRetries => pc = "backoff")
               /\ (attempt = maxRetries
                      => pc = "failed" /\ thrown = ConfirmationTimeoutMessage))
    /\ <>(pc \in {"done", "failed"})

C7_Witness ==
    /\ pc = "failed"
    /\ thrown = ConfirmationTimeoutMessage
    /\ maxRetries = 1
    /\ attempt = 1
    /\ now >= 2 * ConfirmTimeoutMs

\* C8: a call returns a signature only if, in the attempt that returns, the
\* send function returned that signature and its confirmation resolved without
\* err before the 60 s timer; the signature is the one of the last invocation
\* of the send function, and it is returned no sooner than the settle delay
\* after the confirmation.
C8_ReturnOnlyConfirmed ==
    /\ (returned # NoSignature => pc = "done")
    /\ (pc = "done"
            => /\ returned = signature
               /\ returned = sends
               /\ confirmArgs.signature = returned
               /\ refAttempt = attempt
               /\ ledger[returned] = "confirmed"
               /\ sigAt <= confirmedAt
               /\ confirmedAt < timerAt
               /\ now >= confirmedAt + SettleDelayMs
               /\ thrown = NoMessage)

C8_Witness ==
    /\ pc = "done"
    /\ returned = 2
    /\ attempt = 2
    /\ ledger[1] = "failed"

retryableAndFatalOther(message) ==
    /\ isRetryableError(message)
    /\ hasFatalOtherMarker(message)
    /\ ~hasProgramLogicMarker(message)
    /\ ~includes(message, <<"E","r","r","o","r"," ","N","u","m","b","e","r",":"," ","6","0","0","5">>)
    /\ ~mentions(message, <<"u","s","e","r"," ","r","e","j","e","c","t","e","d">>)

\* C9 as stated: an error with a retryable marker and a fatal-other marker, and
\* no program-logic or cancellation marker, is retried while budget remains.
C9_RetryableBeforeFatalOther ==
    (caughtNow /\ pc # "fetch" /\ retryableAndFatalOther(lastError)
        /\ attempt < maxRetries)
        => pc = "backoff"

\* C9 (amended): the fatal-other markers ('insufficient funds', 'insufficient
\* lamports', 'Invalid program', 'ConstraintMut', 'no second player', in this
\* letter case) are looked for before the retryable markers: an error with one
\* of them and a retryable marker is not retried, and the call is rejected
\* with that error in the attempt that raised it.
C9_FatalOtherBeforeRetryable ==
    (caughtIn # NoAttempt /\ retryableAndFatalOther(lastError))
        => /\ pc = "failed"
           /\ caughtNow
           /\ thrown = lastError
           /\ fetches = caughtIn + 1

C9_Witness ==
    /\ pc = "failed"
    /\ lastError = SimulationPrefix \o <<"i","n","s","u","f","f","i","c","i","e","n","t"," ","f","u","n","d","s"," ","f","o","r"," ","f","e","e">>
    /\ attempt < maxRetries
    /\ thrown = lastError

\* C10: the backoff computed after a retryable failure of attempt i < maxRetries
\* is at least retryDelay * 2^i and at most retryDelay * 2^i + 500 ms, and
\* the wait before attempt i + 1 lasts that long.
C10_BackoffBounds ==
    [][/\ (pc' = "backoff"
              => /\ attempt' < maxRetries'
                 /\ delay' >= retryDelay' * pow2(attempt')
                 /\ delay' <= retryDelay' * pow2(attempt') + JitterRangeMs)
       /\ (pc = "backoff" /\ pc' # "backoff"
              => /\ pc' = "fetch"
                 /\ attempt' = attempt + 1
                 /\ now' - now >= retryDelay * pow2(attempt)
                 /\ now' - now <= retryDelay * pow2(attempt) + JitterRangeMs)]_vars

C10_Witness ==
    /\ pc = "backoff"
    /\ attempt = 2
    /\ retryDelay = 1
    /\ delay = 4 + 499

\* C11 (as stated): the backoff delays of one call never decrease, for every
\* positive retryDelay and every jitter: the delay computed after attempt
\* i + 1 is not smaller than the one computed after attempt i.
C11_DelaysNeverDecrease ==
    [][(pc # "backoff" /\ pc' = "backoff" /\ attempt >= 1) => delay' >= delay]_vars

\* C11 (amended): when retryDelay is at least the jitter range of 500 ms, as
\* the default 1000 ms is, the backoff delays of one call never decrease.
C11_DelaysNeverDecreaseFromJitterRange ==
    [][(pc # "backoff" /\ pc' = "backoff" /\ attempt >= 1 /\ retryDelay >= JitterRangeMs)
          => delay' >= delay]_vars

C11_Witness ==
    /\ pc = "backoff"
    /\ attempt = 1
    /\ retryDelay >= JitterRangeMs
    /\ delay = 2 * retryDelay
    /\ ledger = <<"unsent", "unsent">>

\* The send function failed on its first two invocations, no reference fetch
\* failed, and the third attempt was confirmed and returned.
sendFailedTwiceThenSucceeded ==
    /\ pc = "done"
    /\ maxRetries = DefaultMaxRetries
    /\ fetches = 3
    /\ Len(ledger) >= 2
    /\ ledger[1] = "unsent"
    /\ ledger[2] = "unsent"

\* C12: with maxRetries = 3, when the send function fails twice with a
\* transient error and the third attempt is sent and confirmed, the function
\* was invoked exactly three times, the third signature is returned, and the
\* time elapsed is at least retryDelay + 2 * retryDelay (plus the two 300 ms
\* pauses before the retries and the 1000 ms pause after the confirmation).
C12_ThirdSendReturned ==
    sendFailedTwiceThenSucceeded
        => /\ sends = 3
           /\ returned = 3
           /\ ledger[3] = "confirmed"
           /\ now >= retryDelay + 2 * retryDelay + 2 * RefreshDelayMs + SettleDelayMs

C12_Witness ==
    /\ sendFailedTwiceThenSucceeded
    /\ returned = 3
    /\ retryDelay = DefaultRetryDelay
    /\ isRetryableError(lastError)

\* The attempt budget was used up by a failure that is not given up on at once.
exhausted ==
    /\ pc = "failed"
    /\ ~isNonRetryable(raised)

\* C13: when the budget is exhausted by retryable failures the call fails with
\* the error of the final attempt (index maxRetries), not with an earlier one
\* nor with the placeholder of line 19; and a call that failed in an attempt
\* below maxRetries failed with an error that is not retried.
C13_ExhaustionCarriesLastError ==
    /\ exhausted
          => /\ caughtIn = maxRetries
             /\ thrown = raised
             /\ thrown # InitialErrorMessage
    /\ (pc = "failed" /\ caughtIn < maxRetries) => isNonRetryable(raised)
    /\ pc = "backoff" => thrown = NoMessage /\ returned = NoSignature

C13_Witness ==
    /\ exhausted
    /\ maxRetries >= 1
    /\ raisedBy = "timer"
    /\ thrown = ConfirmationTimeoutMessage
    /\ ledger[1] = "unsent"

\* formatTransactionError has been applied to a message that contains
\* 'user rejected' in some letter case.
formattedUserRejection ==
    /\ display # NoMessage
    /\ mentions(errorText, <<"u","s","e","r"," ","r","e","j","e","c","t","e","d">>)

\* C15 (as stated): for every message that contains 'user rejected' in any
\* letter case, whatever else it contains, formatTransactionError returns
\* 'Transaction was cancelled by user.'.
C15_UserRejectionAlwaysCancelled ==
    formattedUserRejection => display = UserCancelledMessage

\* The message carries a marker formatTransactionError tests before
\* 'user rejected': a program error code or number (lines 173-186, case kept),
\* 'insufficient lamports', 'blockhash not found' or 'insufficient funds'
\* (lines 189-212, case ignored).
testedBeforeUserRejected(text) ==
    \/ \E marker \in { <<"E","r","r","o","r"," ","C","o","d","e",":"," ","R","o","o","m","N","o","t","A","v","a","i","l","a","b","l","e">>, <<"E","r","r","o","r"," ","N","u","m","b","e","r",":"," ","6","0","0","2">>,
                       <<"E","r","r","o","r"," ","C","o","d","e",":"," ","G","a","m","e","A","l","r","e","a","d","y","S","t","a","r","t","e","d">>, <<"E","r","r","o","r"," ","N","u","m","b","e","r",":"," ","6","0","0","1">>,
                       <<"E","r","r","o","r"," ","C","o","d","e",":"," ","I","n","v","a","l","i","d","G","a","m","e","S","t","a","t","e">>, <<"E","r","r","o","r"," ","N","u","m","b","e","r",":"," ","6","0","0","3">>,
                       <<"E","r","r","o","r"," ","C","o","d","e",":"," ","S","e","l","e","c","t","i","o","n","T","i","m","e","E","x","p","i","r","e","d">>, <<"E","r","r","o","r"," ","N","u","m","b","e","r",":"," ","6","0","0","4">>,
                       <<"E","r","r","o","r"," ","C","o","d","e",":"," ","I","n","s","u","f","f","i","c","i","e","n","t","F","u","n","d","s">>, <<"E","r","r","o","r"," ","N","u","m","b","e","r",":"," ","6","0","0","5">> } :
          includes(text, marker)
    \/ mentions(text, <<"i","n","s","u","f","f","i","c","i","e","n","t"," ","l","a","m","p","o","r","t","s">>)
    \/ mentions(text, <<"b","l","o","c","k","h","a","s","h"," ","n","o","t"," ","f","o","u","n","d">>)
    \/ mentions(text, <<"i","n","s","u","f","f","i","c","i","e","n","t"," ","f","u","n","d","s">>)

\* C15 (amended): for every message that contains 'user rejected' in any
\* letter case and none of the markers tested before it, whatever later
\* markers it contains, formatTransactionError returns 'Transaction was
\* cancelled by user.'; with an earlier marker it returns a sentence that is
\* not the cancellation sentence.
C15_UserRejectionCancelledUnlessEarlierMarker ==
    formattedUserRejection
        => (display = UserCancelledMessage <=> ~testedBeforeUserRejected(errorText))

C15_Witness ==
    /\ formattedUserRejection
    /\ display = UserCancelledMessage
    /\ mentions(errorText, <<"4","2","9">>)
    /\ includes(errorText, <<"U","S","E","R"," ","R","E","J","E","C","T","E","D">>)

\* The confirmation of the current attempt resolved with value.err and the
\* error thrown for it has been caught.
confirmErrCaught ==
    /\ raisedBy = "err"
    /\ caughtNow
    /\ pc \in {"backoff", "failed"}

lateEvent ==
    \/ \E i \in 1..Len(ledger) :
          ledger[i] = "pending" /\ ~awaited(i) /\ ledger'[i] # "pending"
    \/ timers' # timers /\ timers' \subseteq timers

\* C17: the first of the confirmation and the 60 s timer to settle decides the
\* attempt: a confirmation (success, err payload or rejection) that arrives
\* after the timer fired, and a timer that fires after the confirmation
\* resolved, change nothing of the call: not its position, attempt count,
\* error, signature, result or the number of fetches and sends.
C17_LoserChangesNothing ==
    [][lateEvent
          => UNCHANGED <<pc, attempt, lastError, reference, signature, confirmArgs,
                         timerAt, delay, now, returned, thrown, fetches, sends,
                         caughtIn, raised, raisedBy>>]_vars

C17_Witness ==
    /\ pc = "done"
    /\ returned = 2
    /\ ledger = <<"failed", "confirmed">>
    /\ raisedBy = "timer"
    /\ timers = {}

\* C18: the 60 s timer of an attempt is armed when that attempt's signature
\* is obtained, so no attempt times out sooner than 60 s after its own
\* signature, however much time the earlier attempts have taken.
C18_FullWindowEachAttempt ==
    /\ pc = "race" => timerAt = sigAt + ConfirmTimeoutMs /\ sigAt >= 0
    /\ (raisedBy = "timer" /\ caughtNow /\ pc \in {"backoff", "failed"})
          => /\ sigAt # NoTime
             /\ now >= sigAt + ConfirmTimeoutMs

C18_Witness ==
    /\ raisedBy = "timer"
    /\ caughtNow
    /\ pc = "backoff"
    /\ attempt >= 1
    /\ sigAt > ConfirmTimeoutMs
    /\ now = sigAt + ConfirmTimeoutMs

\* getLatestBlockhash of the current attempt rejected and the error has been caught.
fetchFailureCaught ==
    /\ raisedBy = "fetch"
    /\ caughtNow
    /\ pc \in {"backoff", "failed"}

\* C19: when getLatestBlockhash fails the send function is not invoked in that
\* attempt, the error is classified as an error of the send function is (the
\* call fails exactly when the error is not retried or the attempt is the
\* last), and the attempt is counted; the send function is invoked at most as
\* often as getLatestBlockhash, which is called at most maxRetries + 1 times.
C19_FetchFailureCounts ==
    /\ sends <= fetches
    /\ fetches <= maxRetries + 1
    /\ fetches \in {attempt, attempt + 1}
    /\ fetchFailureCaught
          => /\ sends < fetches
             /\ Len(ledger) = sends
             /\ signature = NoSignature
             /\ fetches = attempt + 1
    /\ (raisedBy \in {"fetch", "send"} /\ caughtNow /\ pc \in {"backoff", "failed"})
          => (pc = "failed" <=> (isNonRetryable(lastError) \/ attempt = maxRetries))

C19_Witness ==
    /\ fetchFailureCaught
    /\ pc = "backoff"
    /\ attempt = 1
    /\ sends = 1
    /\ fetches = 2

\* Transactions of this call the ledger has confirmed.
confirmedOnLedger == {i \in 1..Len(ledger) : ledger[i] = "confirmed"}

\* C20 (as stated): the send function is not invoked again once a transaction
\* of the call is confirmed, before or after the timer, so no call has two of
\* its transactions confirmed.
C20_NeverTwoConfirmed ==
    Cardinality(confirmedOnLedger) <= 1

\* C20 (amended): once the confirmation of an attempt has resolved without err
\* before that attempt's timer, the send function is not invoked again and the
\* call returns that attempt's signature.  (After a timeout the call sends
\* again while the earlier transaction may still be confirmed.)
C20_NoSendAfterTimelyConfirmation ==
    [][/\ pc' \in {"settle", "done"}
            => /\ signature' = sends'
               /\ ledger'[sends'] = "confirmed"
               /\ confirmedAt' < timerAt'
       /\ pc \in {"settle", "done"}
            => /\ sends' = sends
               /\ fetches' = fetches
               /\ pc' \in {"settle", "done"}
               /\ pc' = "done" => returned' = sends]_vars

C20_Witness ==
    /\ pc = "done"
    /\ returned = 2
    /\ ledger = <<"confirmed", "confirmed">>

=============================================================================
